---- MODULE Spec2Model ----
(***************************************************************************)
(* Supplier Quality Ratio (SQR) pipeline of SQR_dashboard.py and            *)
(* SQR_Excel_Calculation.py: period counting, DMR/PO ratios at year, month  *)
(* and vendor granularity, the rounded tables, the top-8 bar chart ranking  *)
(* and the Process Behavior Chart statistics.                               *)
(*                                                                          *)
(* Strings that the code slices (dates) are sequences of one-character      *)
(* strings; vendor names are strings with an explicit upper-casing table.   *)
(* Floating point numbers are exact rationals [tag, num, den] in lowest     *)
(* terms, plus the special values None, nan and inf.                        *)
(***************************************************************************)
EXTENDS Integers, Sequences, FiniteSets, TLC

VARIABLES
    pc,                       \* position in the script
    DMR_log, PO_list,         \* contents of the two input files
    DMR_df,                   \* DMR log rows
    supplier_PO_df,           \* PO list rows
    dmrs_years, PO_years,
    DMRs_yrs_count, PO_yrs_count,
    DMR_PO_perc_yr,
    DMRs_month_count, PO_month_count,
    DMR_PO_perc_month,
    vendors_yr_DMR_count_df, vendors_yr_PO_count_df,
    vendor_DMR_counts, vendor_PO_counts,
    vendor_SQR_ratios,
    df_vendor_SQR_ratios,
    top_20_key_suppliers,
    filtered_dmr_df,
    vendor_interested, year_interested,
    dmr_per_month,            \* the 'DMRs Count' series handed to the PBC statistics
    pbc,                      \* result of calculate_and_plot_pbc
    cd_df, cd_option, cd_unique_list, cd_result,  \* one call of generate_count_dict
    df_yr, df_month,          \* the rounded year and month tables that are displayed
    top8_SQRs,                \* per chart year, top8_SQRs of the dashboard's bar chart
    top8_SQRs_excel,          \* per chart year, top8_SQRs of the export script's bar chart
    ul_df, ul_option, ul_result                   \* one call of generate_unique_list

vars == <<pc, DMR_log, PO_list, DMR_df, supplier_PO_df, dmrs_years, PO_years, DMRs_yrs_count, PO_yrs_count,
          DMR_PO_perc_yr, DMRs_month_count, PO_month_count, DMR_PO_perc_month,
          vendors_yr_DMR_count_df, vendors_yr_PO_count_df, vendor_DMR_counts,
          vendor_PO_counts, vendor_SQR_ratios, df_vendor_SQR_ratios,
          top_20_key_suppliers, filtered_dmr_df, vendor_interested, year_interested,
          dmr_per_month, pbc, cd_df, cd_option, cd_unique_list, cd_result,
          df_yr, df_month, top8_SQRs, top8_SQRs_excel, ul_df, ul_option, ul_result>>

----------------------------------------------------------------------------
(* Bounds of the model *)

\* most rows of the DMR log
MaxDMR == 2
\* most rows of the PO list
MaxPO == 2
\* most rows / keys of a direct generate_count_dict call
MaxRows == 3
MaxKeys == 2
\* longest monthly series and largest monthly count fed directly to the PBC statistics
MaxSeries == 4
MaxCount == 8
\* largest count in a directly supplied count table
MaxTableCount == 3
\* most rows of a directly supplied vendor ratio frame
MaxChartVendors == 9

----------------------------------------------------------------------------
(* Generic helpers *)

Range(s) == {s[i] : i \in 1..Len(s)}

Min(a, b) == IF a < b THEN a ELSE b

Abs(x) == IF x < 0 THEN -x ELSE x

RECURSIVE GCD(_, _)
GCD(a, b) == IF b = 0 THEN a ELSE GCD(b, a % b)

RECURSIVE SumSeq(_)
SumSeq(s) == IF s = <<>> THEN 0 ELSE s[1] + SumSeq(Tail(s))

RECURSIVE SeqsUpTo(_, _)
SeqsUpTo(S, n) ==
    IF n = 0 THEN {<<>>}
    ELSE LET shorter == SeqsUpTo(S, n - 1)
         IN  shorter \cup {Append(s, x) : s \in {t \in shorter : Len(t) = n - 1}, x \in S}

\* first-seen distinct elements of a sequence (pandas Series.unique, list "not in" loop)
RECURSIVE Unique(_)
Unique(s) ==
    IF s = <<>> THEN <<>>
    ELSE LET front == Unique(SubSeq(s, 1, Len(s) - 1))
             last == s[Len(s)]
         IN  IF last \in Range(front) THEN front ELSE Append(front, last)

----------------------------------------------------------------------------
(* Numbers: Python / numpy floats as exact rationals and special values *)

None == [tag |-> "None"]
NaN == [tag |-> "nan"]
Inf == [tag |-> "inf"]

Rat(n, d) ==
    LET g == GCD(Abs(n), d)
    IN  [tag |-> "num", num |-> n \div g, den |-> d \div g]

IsNum(x) == x.tag = "num"

Zero == Rat(0, 1)

\* x + y and x - y on floats; nan propagates
FAdd(x, y) ==
    IF IsNum(x) /\ IsNum(y) THEN Rat(x.num * y.den + y.num * x.den, x.den * y.den) ELSE NaN

FSub(x, y) ==
    IF IsNum(x) /\ IsNum(y) THEN Rat(x.num * y.den - y.num * x.den, x.den * y.den) ELSE NaN

\* x < y on floats; every comparison with nan is False
FLess(x, y) == IsNum(x) /\ IsNum(y) /\ x.num * y.den < y.num * x.den

\* (n / d) * 100 on numpy integers: a zero divisor gives inf (nan for 0/0), not an exception
PercentOf(n, d) ==
    IF d = 0 THEN (IF n = 0 THEN NaN ELSE Inf) ELSE Rat(n * 100, d)

----------------------------------------------------------------------------
(* Strings *)

Digits == {"0", "1", "2", "3", "4", "5", "6", "7", "8", "9"}

DigitVal(c) ==
    CASE c = "0" -> 0 [] c = "1" -> 1 [] c = "2" -> 2 [] c = "3" -> 3 [] c = "4" -> 4
      [] c = "5" -> 5 [] c = "6" -> 6 [] c = "7" -> 7 [] c = "8" -> 8 [] c = "9" -> 9

\* s[a:b] of Python, 0-based half-open, clipped to the string
Slice(s, a, b) ==
    IF a >= Min(b, Len(s)) THEN <<>> ELSE SubSeq(s, a + 1, Min(b, Len(s)))

\* str.isdigit
IsDigit(s) == Len(s) > 0 /\ \A i \in 1..Len(s) : s[i] \in Digits

\* int(s) for a digit string
RECURSIVE ToInt(_)
ToInt(s) == IF s = <<>> THEN 0 ELSE 10 * ToInt(SubSeq(s, 1, Len(s) - 1)) + DigitVal(s[Len(s)])

\* str.upper on the vendor names of the model
Upper(v) ==
    CASE v = "Acme" -> "ACME"
      [] v = "acme" -> "ACME"
      [] v = "Bolt" -> "BOLT"
      [] v = "bolt" -> "BOLT"
      [] OTHER -> v

\* ASCII order of the vendor names of the model (upper case sorts before lower case)
VendorOrder == <<"ACME", "Acme", "BOLT", "Bolt", "acme", "bolt">>

VendorRank(v) == CHOOSE i \in 1..Len(VendorOrder) : VendorOrder[i] = v

----------------------------------------------------------------------------
(* Input data *)

Date_2023_01 == <<"2", "0", "2", "3", "-", "0", "1", "-", "0", "5">>
Date_2023_02 == <<"2", "0", "2", "3", "-", "0", "2", "-", "1", "0">>
Date_2024_01 == <<"2", "0", "2", "4", "-", "0", "1", "-", "0", "3">>
\* str(nan): an empty date cell after astype('str')
Date_nan == <<"n", "a", "n">>

DMRDates == {Date_2023_01, Date_2023_02, Date_2024_01, Date_nan}

DMRVendors == {"Acme", "Bolt"}
POVendors == {"ACME", "Bolt"}

DMRRows == [Date : DMRDates, Vendor : DMRVendors]
\* PO rows: a vendor spelled differently from the DMR log, and one spelled alike in two
\* years; P.O. dates went through pd.to_datetime, so they are well formed
PORows ==
    {[Date |-> Date_2023_01, Vendor |-> "ACME"],
     [Date |-> Date_2023_01, Vendor |-> "Bolt"],
     [Date |-> Date_2024_01, Vendor |-> "Bolt"]}

unique_months == <<<<"0", "1">>, <<"0", "2">>, <<"0", "3">>, <<"0", "4">>, <<"0", "5">>,
                   <<"0", "6">>, <<"0", "7">>, <<"0", "8">>, <<"0", "9">>, <<"1", "0">>,
                   <<"1", "1">>, <<"1", "2">>>>

Unset == "unset"

----------------------------------------------------------------------------
(* Temporal key extraction and period counting *)

DateColumn(df) == [i \in 1..Len(df) |-> df[i].Date]

generate_unique_list_digits_only(dates, option) ==
    IF option \in {"Year", "Month"}
    THEN LET years == Unique([i \in 1..Len(Unique(dates)) |-> Slice(Unique(dates)[i], 0, 4)])
         IN  SelectSeq(years, IsDigit)
    ELSE None

generate_unique_list(dates, option) ==
    IF option \in {"Year", "Month"}
    THEN Unique([i \in 1..Len(Unique(dates)) |-> Slice(Unique(dates)[i], 0, 4)])
    ELSE None

generate_count_dict_wrong_slice(dates, option, unique_list) ==
    IF option = "Year"
    THEN [year \in Range(unique_list) |->
            Cardinality({i \in 1..Len(dates) : Slice(dates[i], 0, 3) = year})]
    ELSE IF option = "Month"
    THEN LET unique_years == Unique([i \in 1..Len(dates) |-> Slice(dates[i], 0, 4)])
         IN  [yr \in Range(unique_years) |->
                [month \in Range(unique_list) |->
                    Cardinality({i \in 1..Len(dates) :
                        Slice(dates[i], 0, 4) = yr /\ Slice(dates[i], 5, 7) = month})]]
    ELSE None

generate_count_dict_skip_zero(dates, option, unique_list) ==
    IF option = "Year"
    THEN [year \in Range(unique_list) |->
            Cardinality({i \in 1..Len(dates) : Slice(dates[i], 0, 4) = year})]
    ELSE IF option = "Month"
    THEN LET unique_years == Unique([i \in 1..Len(dates) |-> Slice(dates[i], 0, 4)])
         IN  [yr \in Range(unique_years) |->
                [month \in {m \in Range(unique_list) :
                               \E i \in 1..Len(dates) :
                                   Slice(dates[i], 0, 4) = yr /\ Slice(dates[i], 5, 7) = m} |->
                    Cardinality({i \in 1..Len(dates) :
                        Slice(dates[i], 0, 4) = yr /\ Slice(dates[i], 5, 7) = month})]]
    ELSE None

generate_count_dict(dates, option, unique_list) ==
    IF option = "Year"
    THEN [year \in Range(unique_list) |->
            Cardinality({i \in 1..Len(dates) : Slice(dates[i], 0, 4) = year})]
    ELSE IF option = "Month"
    THEN LET unique_years == Unique([i \in 1..Len(dates) |-> Slice(dates[i], 0, 4)])
         IN  [yr \in Range(unique_years) |->
                [month \in Range(unique_list) |->
                    Cardinality({i \in 1..Len(dates) :
                        Slice(dates[i], 0, 4) = yr /\ Slice(dates[i], 5, 7) = month})]]
    ELSE None

----------------------------------------------------------------------------
(* Ratio calculation *)

\* DMR_PO_perc_yr: one entry per year of dmrs_years
YearRatios_guess_zero(years, num, den) ==
    [year \in Range(years) |->
        IF year \in DOMAIN den /\ den[year] # 0 THEN PercentOf(num[year], den[year]) ELSE Zero]

YearRatios(years, num, den) ==
    [year \in Range(years) |->
        IF year \in DOMAIN den THEN PercentOf(num[year], den[year]) ELSE None]

\* DMR_PO_perc_month: years of both tables, months with a non-zero PO count
MonthRatios_null_placeholder(num, den) ==
    [year \in (DOMAIN num) \cap (DOMAIN den) |->
        [month \in DOMAIN den[year] |->
            IF den[year][month] # 0
            THEN PercentOf(num[year][month], den[year][month]) ELSE None]]

MonthRatios(num, den) ==
    [year \in (DOMAIN num) \cap (DOMAIN den) |->
        [month \in {m \in DOMAIN den[year] : den[year][m] # 0} |->
            PercentOf(num[year][month], den[year][month])]]

----------------------------------------------------------------------------
(* Vendor aggregation *)

\* df['Year'] = df[date].str[:4]; keep rows whose Year isdigit; Year.astype(int)
WithYear(df) ==
    LET keep == {i \in 1..Len(df) : IsDigit(Slice(df[i].Date, 0, 4))}
        F[i \in 0..Len(df)] ==
            IF i = 0 THEN <<>>
            ELSE IF i \in keep
                 THEN Append(F[i - 1], [Date |-> df[i].Date, Vendor |-> df[i].Vendor,
                                        Year |-> ToInt(Slice(df[i].Date, 0, 4))])
                 ELSE F[i - 1]
    IN  F[Len(df)]

GroupLess(a, b) ==
    \/ a[1] < b[1]
    \/ a[1] = b[1] /\ VendorRank(a[2]) < VendorRank(b[2])

RECURSIVE SortGroups(_)
SortGroups(S) ==
    IF S = {} THEN <<>>
    ELSE LET least == CHOOSE a \in S : \A b \in S \ {a} : GroupLess(a, b)
         IN  <<least>> \o SortGroups(S \ {least})

\* df.groupby(['Year', vendor]).size().reset_index(name='DMR Count'), sorted by the group keys
GroupByYearVendor_unobserved(df) ==
    LET groups == SortGroups({<<df[i].Year, df[j].Vendor>> : i, j \in 1..Len(df)})
    IN  [g \in 1..Len(groups) |->
            [Year |-> groups[g][1], Vendor |-> groups[g][2],
             Count |-> Cardinality({i \in 1..Len(df) :
                          df[i].Year = groups[g][1] /\ df[i].Vendor = groups[g][2]})]]

GroupByYearVendor(df) ==
    LET groups == SortGroups({<<df[i].Year, df[i].Vendor>> : i \in 1..Len(df)})
    IN  [g \in 1..Len(groups) |->
            [Year |-> groups[g][1], Vendor |-> groups[g][2],
             Count |-> Cardinality({i \in 1..Len(df) :
                          df[i].Year = groups[g][1] /\ df[i].Vendor = groups[g][2]})]]

\* the iterrows loops: vendor -> year -> count
VendorCounts(rows) ==
    [vendor \in {rows[i].Vendor : i \in 1..Len(rows)} |->
        [year \in {rows[i].Year : i \in {j \in 1..Len(rows) : rows[j].Vendor = vendor}} |->
            (CHOOSE r \in Range(rows) : r.Vendor = vendor /\ r.Year = year).Count]]

\* insertion order of the keys of the vendor dictionaries
VendorKeyOrder_per_group(rows) == [i \in 1..Len(rows) |-> rows[i].Vendor]

VendorKeyOrder(rows) == Unique([i \in 1..Len(rows) |-> rows[i].Vendor])

InCounts(counts, vendor, year) == vendor \in DOMAIN counts /\ year \in DOMAIN counts[vendor]

VendorRatios_upper_join(dmr, po) ==
    [vendor \in DOMAIN dmr |->
        [year \in DOMAIN dmr[vendor] |->
            IF \E pv \in DOMAIN po : Upper(pv) = Upper(vendor) /\ year \in DOMAIN po[pv]
            THEN LET pv == CHOOSE w \in DOMAIN po :
                               Upper(w) = Upper(vendor) /\ year \in DOMAIN po[w]
                 IN  PercentOf(dmr[vendor][year], po[pv][year])
            ELSE None]]

VendorRatios(dmr, po) ==
    [vendor \in DOMAIN dmr |->
        [year \in {y \in DOMAIN dmr[vendor] :
                     InCounts(po, vendor, y) => po[vendor][y] # 0} |->
            IF InCounts(po, vendor, year)
            THEN PercentOf(dmr[vendor][year], po[vendor][year])
            ELSE None]]

\* pd.DataFrame(vendor_SQR_ratios).T.reset_index().rename(index -> Vendor)
VendorFrame(ratios, order) ==
    LET years == UNION {DOMAIN ratios[v] : v \in DOMAIN ratios}
    IN  [Vendor |-> order,
         columns |-> years,
         cell |-> [v \in DOMAIN ratios |-> [y \in years |->
                     IF y \in DOMAIN ratios[v] /\ ratios[v][y].tag # "None"
                     THEN ratios[v][y] ELSE NaN]]]

----------------------------------------------------------------------------
(* The tables that are displayed or exported, and the bar charts *)

\* round(x, 1) of numpy: to one decimal, a tie to the even digit; nan, inf and None stay
Round1(x) ==
    IF IsNum(x)
    THEN LET q == (10 * x.num) \div x.den
             rest == 10 * x.num - q * x.den
         IN  IF 2 * rest < x.den THEN Rat(q, 10)
             ELSE IF 2 * rest > x.den THEN Rat(q + 1, 10)
             ELSE IF q % 2 = 0 THEN Rat(q, 10) ELSE Rat(q + 1, 10)
    ELSE x

\* df_yr: one row, the columns whose name isdigit, rounded
YearFrame(perc_yr) ==
    [year \in {k \in DOMAIN perc_yr : IsDigit(k)} |-> Round1(perc_yr[year])]

\* df_month: one column per year, one row per month of any year, rounded; a month that a
\* year lacks is NaN
MonthFrame(perc_month) ==
    LET index == UNION {DOMAIN perc_month[y] : y \in DOMAIN perc_month}
    IN  [year \in DOMAIN perc_month |->
            [month \in index |->
                IF month \in DOMAIN perc_month[year]
                THEN Round1(perc_month[year][month]) ELSE NaN]]

\* head(8)
Top8 == 8

\* row i comes before row j in sort_values(by=year, ascending=False): greater value first,
\* NaN last; rows that compare equal are taken in frame order (pandas does not fix it)
SortsBefore(df_SQR, year, i, j) ==
    LET a == df_SQR.cell[df_SQR.Vendor[i]][year]
        b == df_SQR.cell[df_SQR.Vendor[j]][year]
    IN  \/ FLess(b, a)
        \/ IsNum(a) /\ ~IsNum(b)
        \/ ~FLess(a, b) /\ (IsNum(a) <=> IsNum(b)) /\ i < j

RECURSIVE SortRows(_, _, _)
SortRows(df_SQR, year, rows) ==
    IF rows = {} THEN <<>>
    ELSE LET first == CHOOSE i \in rows :
                          \A j \in rows \ {i} : SortsBefore(df_SQR, year, i, j)
         IN  <<first>> \o SortRows(df_SQR, year, rows \ {first})

\* the rows of a sorted frame as (Vendor, value) records, cut to the first 8
Head8(df_SQR, year, sorted) ==
    [k \in 1..Min(Top8, Len(sorted)) |->
        [Vendor |-> df_SQR.Vendor[sorted[k]],
         value |-> df_SQR.cell[df_SQR.Vendor[sorted[k]]][year]]]

\* top8_SQRs of the dashboard: the rows with a value for the year, sorted, first 8
generate_SQR_bar_chart(df_SQR, year) ==
    IF year \notin df_SQR.columns THEN [raised |-> "KeyError"]
    ELSE LET kept == {i \in 1..Len(df_SQR.Vendor) :
                         IsNum(df_SQR.cell[df_SQR.Vendor[i]][year])}
         IN  [raised |-> "no", rows |-> Head8(df_SQR, year, SortRows(df_SQR, year, kept))]

\* top8_SQRs of the export script: all rows, sorted, first 8
generate_SQR_bar_chart_excel(df_SQR, year) ==
    IF year \notin df_SQR.columns THEN [raised |-> "KeyError"]
    ELSE [raised |-> "no",
          rows |-> Head8(df_SQR, year,
                         SortRows(df_SQR, year, 1..Len(df_SQR.Vendor)))]

\* sorted(set(PO_years).intersection(dmrs_years))
ChartYears(po_years, dmr_years) == Range(po_years) \cap Range(dmr_years)

----------------------------------------------------------------------------
(* Process Behavior Chart *)

\* a datetime64 cell is <<"datetime64", year, month, day>>, a missing one is NaT; a text
\* cell is the sequence of its characters
NaT == <<"NaT">>

IsDate(d) == Len(d) = 4 /\ d[1] = "datetime64"

dt_year(d) == d[2]

dt_month(d) == d[3]

\* pd.to_datetime(s, errors='coerce') on a cell: a datetime cell stays, a text cell is parsed
ToDatetime(s) ==
    IF s = NaT \/ IsDate(s) THEN s
    ELSE IF /\ Len(s) = 10
            /\ IsDigit(Slice(s, 0, 4)) /\ s[5] = "-"
            /\ IsDigit(Slice(s, 5, 7)) /\ s[8] = "-"
            /\ IsDigit(Slice(s, 8, 10))
            /\ ToInt(Slice(s, 5, 7)) \in 1..12
    THEN <<"datetime64", ToInt(Slice(s, 0, 4)), ToInt(Slice(s, 5, 7)), ToInt(Slice(s, 8, 10))>>
    ELSE NaT

\* raw_df['Date'] = pd.to_datetime(raw_df['Date'], errors='coerce')
ConvertDates(raw_df) ==
    [i \in 1..Len(raw_df) |-> [raw_df[i] EXCEPT !.Date = ToDatetime(raw_df[i].Date)]]

PeriodLess(a, b) == a[1] < b[1] \/ (a[1] = b[1] /\ a[2] < b[2])

RECURSIVE SortPeriods(_)
SortPeriods(S) ==
    IF S = {} THEN <<>>
    ELSE LET least == CHOOSE a \in S : \A b \in S \ {a} : PeriodLess(a, b)
         IN  <<least>> \o SortPeriods(S \ {least})

\* vendor_data grouped by 'Year-Month', counted and sorted; raw_df holds converted dates
MonthlySeries_all_years(vendor, year, raw_df) ==
    LET vendor_data == {i \in 1..Len(raw_df) :
                           /\ raw_df[i].Vendor = vendor
                           /\ IsDate(raw_df[i].Date)}
        periods == SortPeriods({<<dt_year(raw_df[i].Date), dt_month(raw_df[i].Date)>> :
                                   i \in vendor_data})
    IN  [k \in 1..Len(periods) |->
            [YearMonth |-> periods[k],
             Count |-> Cardinality({i \in vendor_data :
                          <<dt_year(raw_df[i].Date), dt_month(raw_df[i].Date)>> = periods[k]})]]

MonthlySeries(vendor, year, raw_df) ==
    LET vendor_data == {i \in 1..Len(raw_df) :
                           /\ raw_df[i].Vendor = vendor
                           /\ IsDate(raw_df[i].Date)
                           /\ dt_year(raw_df[i].Date) = year}
        periods == SortPeriods({<<dt_year(raw_df[i].Date), dt_month(raw_df[i].Date)>> :
                                   i \in vendor_data})
    IN  [k \in 1..Len(periods) |->
            [YearMonth |-> periods[k],
             Count |-> Cardinality({i \in vendor_data :
                          <<dt_year(raw_df[i].Date), dt_month(raw_df[i].Date)>> = periods[k]})]]

CountColumn(frame) == [k \in 1..Len(frame) |-> frame[k].Count]

\* [0] + [abs(next - current) for current, next in zip(counts[:-1], counts[1:])]
MovingRanges(counts) ==
    <<0>> \o [i \in 1..(Len(counts) - 1) |-> Abs(counts[i + 1] - counts[i])]

\* 2.66 and 3.27 of the process limits
UPL_factor == Rat(266, 100)
URL_factor == Rat(327, 100)

\* moving_ranges[-1]
AverageMovingRanges_mean(moving_ranges) == Rat(SumSeq(moving_ranges), Len(moving_ranges))

AverageMovingRanges(moving_ranges) == Rat(moving_ranges[Len(moving_ranges)], 1)

\* the lower limit: 0 when the natural limit is negative, else the mean
LowerLimit_natural(mean_dmr, natural) == IF FLess(natural, Zero) THEN Zero ELSE natural

LowerLimit(mean_dmr, natural) == IF FLess(natural, Zero) THEN Zero ELSE mean_dmr

\* assigning the moving ranges as a column: a frame without rows takes the index of the
\* value (its other columns become NaN); otherwise the lengths must agree
AssignColumn_strict(n_rows, values) ==
    IF Len(values) = n_rows
    THEN [raised |-> "no", rows |-> n_rows]
    ELSE [raised |-> "ValueError", rows |-> n_rows]

AssignColumn(n_rows, values) ==
    IF n_rows = 0 /\ Len(values) > 0 THEN [raised |-> "no", rows |-> Len(values)]
    ELSE IF Len(values) = n_rows THEN [raised |-> "no", rows |-> n_rows]
    ELSE [raised |-> "ValueError", rows |-> n_rows]

\* the statistics of calculate_and_plot_pbc on the 'DMRs Count' column
PBCStatistics(counts) ==
    LET mean_dmr == IF Len(counts) = 0 THEN NaN ELSE Rat(SumSeq(counts), Len(counts))
        moving_ranges == MovingRanges(counts)
        assigned == AssignColumn(Len(counts), moving_ranges)
        average_moving_ranges == AverageMovingRanges(moving_ranges)
        spread == Rat(UPL_factor.num * average_moving_ranges.num,
                      UPL_factor.den * average_moving_ranges.den)
        natural == FSub(mean_dmr, spread)
    IN  IF assigned.raised # "no"
        THEN [raised |-> assigned.raised]
        ELSE [raised |-> "no",
              rows |-> assigned.rows,
              mean_dmr |-> mean_dmr,
              moving_ranges |-> moving_ranges,
              average_moving_ranges |-> average_moving_ranges,
              UPL |-> FAdd(mean_dmr, spread),
              LPL |-> LowerLimit(mean_dmr, natural),
              URL |-> Rat(average_moving_ranges.num * URL_factor.num,
                          average_moving_ranges.den * URL_factor.den)]

----------------------------------------------------------------------------
(* The script, step by step *)

yearVars == <<dmrs_years, PO_years, DMRs_yrs_count, PO_yrs_count, DMR_PO_perc_yr>>
monthVars == <<DMRs_month_count, PO_month_count, DMR_PO_perc_month>>
vendorVars == <<vendors_yr_DMR_count_df, vendors_yr_PO_count_df, vendor_DMR_counts,
                vendor_PO_counts, vendor_SQR_ratios, df_vendor_SQR_ratios>>
pbcVars == <<top_20_key_suppliers, filtered_dmr_df, vendor_interested, year_interested,
             dmr_per_month, pbc>>
cdVars == <<cd_df, cd_option, cd_unique_list, cd_result>>
frameVars == <<df_yr, df_month>>
chartVars == <<top8_SQRs, top8_SQRs_excel>>
ulVars == <<ul_df, ul_option, ul_result>>

YearUnset ==
    /\ dmrs_years = Unset /\ PO_years = Unset /\ DMRs_yrs_count = Unset
    /\ PO_yrs_count = Unset /\ DMR_PO_perc_yr = Unset

MonthUnset ==
    /\ DMRs_month_count = Unset /\ PO_month_count = Unset /\ DMR_PO_perc_month = Unset

VendorUnset ==
    /\ vendors_yr_DMR_count_df = Unset /\ vendors_yr_PO_count_df = Unset
    /\ vendor_DMR_counts = Unset /\ vendor_PO_counts = Unset
    /\ vendor_SQR_ratios = Unset /\ df_vendor_SQR_ratios = Unset

SelectionUnset ==
    /\ top_20_key_suppliers = Unset /\ filtered_dmr_df = Unset
    /\ vendor_interested = Unset /\ year_interested = Unset

PBCUnset == dmr_per_month = Unset /\ pbc = Unset

CountCallUnset ==
    /\ cd_df = Unset /\ cd_option = Unset /\ cd_unique_list = Unset /\ cd_result = Unset

FramesUnset == df_yr = Unset /\ df_month = Unset

ChartsUnset == top8_SQRs = Unset /\ top8_SQRs_excel = Unset

UniqueCallUnset == ul_df = Unset /\ ul_option = Unset /\ ul_result = Unset

\* the two files are read and their date columns are strings
Init ==
    /\ pc = "year_counts"
    /\ DMR_log \in SeqsUpTo(DMRRows, MaxDMR)
    /\ PO_list \in SeqsUpTo(PORows, MaxPO)
    /\ DMR_df = DMR_log
    /\ supplier_PO_df = PO_list
    /\ YearUnset /\ MonthUnset /\ VendorUnset
    /\ SelectionUnset /\ PBCUnset /\ CountCallUnset
    /\ FramesUnset /\ ChartsUnset /\ UniqueCallUnset

YearCounts ==
    /\ pc = "year_counts"
    /\ dmrs_years' = generate_unique_list(DateColumn(DMR_df), "Year")
    /\ PO_years' = generate_unique_list(DateColumn(supplier_PO_df), "Year")
    /\ DMRs_yrs_count' = generate_count_dict(DateColumn(DMR_df), "Year", dmrs_years')
    /\ PO_yrs_count' = generate_count_dict(DateColumn(supplier_PO_df), "Year", PO_years')
    /\ pc' = "year_ratio"
    /\ UNCHANGED <<DMR_log, PO_list, DMR_df, supplier_PO_df, DMR_PO_perc_yr, monthVars, vendorVars, pbcVars,
                   cdVars, frameVars, chartVars, ulVars>>

YearRatio ==
    /\ pc = "year_ratio"
    /\ DMR_PO_perc_yr' = YearRatios(dmrs_years, DMRs_yrs_count, PO_yrs_count)
    /\ pc' = "month_counts"
    /\ UNCHANGED <<DMR_log, PO_list, DMR_df, supplier_PO_df, dmrs_years, PO_years, DMRs_yrs_count,
                   PO_yrs_count, monthVars, vendorVars, pbcVars, cdVars, frameVars, chartVars, ulVars>>

MonthCounts ==
    /\ pc = "month_counts"
    /\ DMRs_month_count' = generate_count_dict(DateColumn(DMR_df), "Month", unique_months)
    /\ PO_month_count' =
           generate_count_dict(DateColumn(supplier_PO_df), "Month", unique_months)
    /\ pc' = "month_ratio"
    /\ UNCHANGED <<DMR_log, PO_list, DMR_df, supplier_PO_df, yearVars, DMR_PO_perc_month, vendorVars,
                   pbcVars, cdVars, frameVars, chartVars, ulVars>>

MonthRatio ==
    /\ pc = "month_ratio"
    /\ DMR_PO_perc_month' = MonthRatios(DMRs_month_count, PO_month_count)
    /\ pc' = "frames"
    /\ UNCHANGED <<DMR_log, PO_list, DMR_df, supplier_PO_df, yearVars, DMRs_month_count, PO_month_count,
                   vendorVars, pbcVars, cdVars, frameVars, chartVars, ulVars>>

\* the year and month ratios become frames and are rounded
Frames ==
    /\ pc = "frames"
    /\ df_yr' = YearFrame(DMR_PO_perc_yr)
    /\ df_month' = MonthFrame(DMR_PO_perc_month)
    /\ pc' = "vendor_counts"
    /\ UNCHANGED <<DMR_log, PO_list, DMR_df, supplier_PO_df, yearVars, monthVars, vendorVars,
                   pbcVars, cdVars, chartVars, ulVars>>

\* both frames get an integer Year column and lose the rows without a digit year
VendorAggregate ==
    /\ pc = "vendor_counts"
    /\ DMR_df' = WithYear(DMR_df)
    /\ supplier_PO_df' = WithYear(supplier_PO_df)
    /\ vendors_yr_DMR_count_df' = GroupByYearVendor(DMR_df')
    /\ vendors_yr_PO_count_df' = GroupByYearVendor(supplier_PO_df')
    /\ vendor_DMR_counts' = VendorCounts(vendors_yr_DMR_count_df')
    /\ vendor_PO_counts' = VendorCounts(vendors_yr_PO_count_df')
    /\ pc' = "vendor_ratio"
    /\ UNCHANGED <<DMR_log, PO_list, yearVars, monthVars, vendor_SQR_ratios, df_vendor_SQR_ratios, pbcVars,
                   cdVars, frameVars, chartVars, ulVars>>

VendorRatio ==
    /\ pc = "vendor_ratio"
    /\ vendor_SQR_ratios' = VendorRatios(vendor_DMR_counts, vendor_PO_counts)
    /\ df_vendor_SQR_ratios' =
           VendorFrame(vendor_SQR_ratios', VendorKeyOrder(vendors_yr_DMR_count_df))
    /\ pc' = "bar_charts"
    /\ UNCHANGED <<DMR_log, PO_list, DMR_df, supplier_PO_df, yearVars, monthVars, vendors_yr_DMR_count_df,
                   vendors_yr_PO_count_df, vendor_DMR_counts, vendor_PO_counts, pbcVars,
                   cdVars, frameVars, chartVars, ulVars>>

\* one bar chart per year of both year lists, from the vendor ratio frame
BarCharts ==
    /\ pc = "bar_charts"
    /\ top8_SQRs' =
           [year \in ChartYears(PO_years, dmrs_years) |->
               generate_SQR_bar_chart(df_vendor_SQR_ratios, ToInt(year))]
    /\ top8_SQRs_excel' =
           [year \in ChartYears(PO_years, dmrs_years) |->
               generate_SQR_bar_chart_excel(df_vendor_SQR_ratios, ToInt(year))]
    /\ pc' = "key_suppliers"
    /\ UNCHANGED <<DMR_log, PO_list, DMR_df, supplier_PO_df, yearVars, monthVars, vendorVars,
                   pbcVars, cdVars, frameVars, ulVars>>

\* contents the key supplier file can have
KeySupplierFiles == {<<"acme", "bolt">>, <<"acme">>}

\* the key supplier list and the DMR vendors are upper-cased, the DMR rows filtered
KeySuppliers ==
    /\ pc = "key_suppliers"
    /\ \E file \in KeySupplierFiles :
           top_20_key_suppliers' = [i \in 1..Len(file) |-> Upper(file[i])]
    /\ DMR_df' = [i \in 1..Len(DMR_df) |-> [DMR_df[i] EXCEPT !.Vendor = Upper(@)]]
    /\ filtered_dmr_df' =
           SelectSeq(DMR_df', LAMBDA row : row.Vendor \in Range(top_20_key_suppliers'))
    /\ pc' = "select"
    /\ UNCHANGED <<DMR_log, PO_list, supplier_PO_df, yearVars, monthVars, vendorVars, vendor_interested,
                   year_interested, dmr_per_month, pbc, cdVars, frameVars, chartVars, ulVars>>

\* what the two select boxes offer
VendorOptions(df) == Unique([i \in 1..Len(df) |-> df[i].Vendor])

YearOptions(df) ==
    LET dated == SelectSeq(ConvertDates(df), LAMBDA row : IsDate(row.Date))
    IN  Unique([i \in 1..Len(dated) |-> dt_year(dated[i].Date)])

\* the user picks a vendor and a year; the chart statistics are computed
SelectPBC ==
    /\ pc = "select"
    /\ VendorOptions(filtered_dmr_df) # <<>>
    /\ YearOptions(filtered_dmr_df) # <<>>
    /\ \E vendor \in Range(VendorOptions(filtered_dmr_df)),
          year \in Range(YearOptions(filtered_dmr_df)) :
           /\ vendor_interested' = vendor
           /\ year_interested' = year
           /\ filtered_dmr_df' = ConvertDates(filtered_dmr_df)
           /\ dmr_per_month' = MonthlySeries(vendor, year, filtered_dmr_df')
           /\ pbc' = PBCStatistics(CountColumn(dmr_per_month'))
    /\ pc' = "done"
    /\ UNCHANGED <<DMR_log, PO_list, DMR_df, supplier_PO_df, yearVars, monthVars, vendorVars,
                   top_20_key_suppliers, cdVars, frameVars, chartVars, ulVars>>

\* a select box without options returns None, which matches no row
SelectNothing ==
    /\ pc = "select"
    /\ VendorOptions(filtered_dmr_df) = <<>> \/ YearOptions(filtered_dmr_df) = <<>>
    /\ vendor_interested' =
           IF VendorOptions(filtered_dmr_df) = <<>> THEN "None"
           ELSE VendorOptions(filtered_dmr_df)[1]
    /\ year_interested' =
           IF YearOptions(filtered_dmr_df) = <<>> THEN "None"
           ELSE YearOptions(filtered_dmr_df)[1]
    /\ filtered_dmr_df' = ConvertDates(filtered_dmr_df)
    /\ dmr_per_month' = <<>>
    /\ pbc' = PBCStatistics(CountColumn(dmr_per_month'))
    /\ pc' = "done"
    /\ UNCHANGED <<DMR_log, PO_list, DMR_df, supplier_PO_df, yearVars, monthVars, vendorVars,
                   top_20_key_suppliers, cdVars, frameVars, chartVars, ulVars>>

Next ==
    \/ YearCounts
    \/ YearRatio
    \/ MonthCounts
    \/ MonthRatio
    \/ Frames
    \/ VendorAggregate
    \/ VendorRatio
    \/ BarCharts
    \/ KeySuppliers
    \/ SelectPBC
    \/ SelectNothing

Spec == Init /\ [][Next]_vars

----------------------------------------------------------------------------
(* The ratio computations applied to directly supplied count tables *)

YearKeys == {Slice(Date_2023_01, 0, 4), Slice(Date_2024_01, 0, 4)}

YearNumbers == {ToInt(k) : k \in YearKeys}

\* dictionaries over some of the keys with values in the counts
Tables(keys, counts) == UNION {[K -> counts] : K \in SUBSET keys}

VendorTables(vendors, counts) ==
    UNION {[V -> Tables(YearNumbers, counts) \ {<<>>}] : V \in SUBSET vendors}

\* a month-count row whose first month holds a, second month holds b, the others 0
MonthRow(a, b) ==
    [m \in Range(unique_months) |->
        IF m = unique_months[1] THEN a ELSE IF m = unique_months[2] THEN b ELSE 0]

MonthTables(counts) ==
    UNION {[K -> {MonthRow(a, b) : a \in counts, b \in 0..1}] : K \in SUBSET YearKeys}

\* the orders in which the keys S can have been inserted into a dictionary
Orders(S) == {s \in SeqsUpTo(S, Cardinality(S)) : Range(s) = S /\ Len(s) = Cardinality(S)}

InitTables ==
    /\ pc = "tables_year"
    /\ DMR_log = Unset /\ PO_list = Unset /\ DMR_df = Unset /\ supplier_PO_df = Unset
    /\ \/ /\ dmrs_years \in {s \in SeqsUpTo(YearKeys, Cardinality(YearKeys)) :
                               Cardinality(Range(s)) = Len(s)}
          /\ DMRs_yrs_count \in [Range(dmrs_years) -> 1..MaxTableCount]
          /\ PO_yrs_count \in Tables(YearKeys, 0..MaxTableCount)
          /\ DMRs_month_count = <<>>
          /\ PO_month_count = <<>>
          /\ vendor_DMR_counts = <<>>
          /\ vendor_PO_counts = <<>>
       \/ /\ dmrs_years = <<>>
          /\ DMRs_yrs_count = <<>>
          /\ PO_yrs_count = <<>>
          /\ DMRs_month_count \in MonthTables(0..MaxTableCount)
          /\ PO_month_count \in MonthTables(0..MaxTableCount)
          /\ vendor_DMR_counts = <<>>
          /\ vendor_PO_counts = <<>>
       \/ /\ dmrs_years = <<>>
          /\ DMRs_yrs_count = <<>>
          /\ PO_yrs_count = <<>>
          /\ DMRs_month_count = <<>>
          /\ PO_month_count = <<>>
          /\ vendor_DMR_counts \in VendorTables(DMRVendors, 1..MaxTableCount)
          /\ vendor_PO_counts \in VendorTables(POVendors, 0..MaxTableCount)
    /\ PO_years = Unset /\ DMR_PO_perc_yr = Unset
    /\ DMR_PO_perc_month = Unset
    /\ vendors_yr_DMR_count_df = Unset /\ vendors_yr_PO_count_df = Unset
    /\ vendor_SQR_ratios = Unset /\ df_vendor_SQR_ratios = Unset
    /\ SelectionUnset /\ PBCUnset /\ CountCallUnset
    /\ FramesUnset /\ ChartsUnset /\ UniqueCallUnset

TablesYearRatio ==
    /\ pc = "tables_year"
    /\ DMR_PO_perc_yr' = YearRatios(dmrs_years, DMRs_yrs_count, PO_yrs_count)
    /\ pc' = "tables_month"
    /\ UNCHANGED <<DMR_log, PO_list, DMR_df, supplier_PO_df, dmrs_years, PO_years,
                   DMRs_yrs_count, PO_yrs_count, monthVars, vendorVars, pbcVars, cdVars,
                   frameVars, chartVars, ulVars>>

TablesMonthRatio ==
    /\ pc = "tables_month"
    /\ DMR_PO_perc_month' = MonthRatios(DMRs_month_count, PO_month_count)
    /\ pc' = "tables_frames"
    /\ UNCHANGED <<DMR_log, PO_list, DMR_df, supplier_PO_df, yearVars, DMRs_month_count,
                   PO_month_count, vendorVars, pbcVars, cdVars, frameVars, chartVars,
                   ulVars>>

TablesFrames ==
    /\ pc = "tables_frames"
    /\ df_yr' = YearFrame(DMR_PO_perc_yr)
    /\ df_month' = MonthFrame(DMR_PO_perc_month)
    /\ pc' = "tables_vendor"
    /\ UNCHANGED <<DMR_log, PO_list, DMR_df, supplier_PO_df, yearVars, monthVars, vendorVars,
                   pbcVars, cdVars, chartVars, ulVars>>

TablesVendorRatio ==
    /\ pc = "tables_vendor"
    /\ vendor_SQR_ratios' = VendorRatios(vendor_DMR_counts, vendor_PO_counts)
    /\ \E order \in Orders(DOMAIN vendor_DMR_counts) :
           df_vendor_SQR_ratios' = VendorFrame(vendor_SQR_ratios', order)
    /\ pc' = "tables_done"
    /\ UNCHANGED <<DMR_log, PO_list, DMR_df, supplier_PO_df, yearVars, monthVars,
                   vendors_yr_DMR_count_df, vendors_yr_PO_count_df, vendor_DMR_counts,
                   vendor_PO_counts, pbcVars, cdVars, frameVars, chartVars, ulVars>>

NextTables == TablesYearRatio \/ TablesMonthRatio \/ TablesFrames \/ TablesVendorRatio

SpecTables == InitTables /\ [][NextTables]_vars

----------------------------------------------------------------------------
(* One call of generate_count_dict on an arbitrary date column and key list *)

Key_2025 == <<"2", "0", "2", "5">>

KeyCandidates == YearKeys \cup {Key_2025, Date_nan}

InitCount ==
    /\ pc = "count_call"
    /\ cd_df \in SeqsUpTo(DMRDates, MaxRows)
    /\ \/ cd_option = "Year" /\ cd_unique_list \in SeqsUpTo(KeyCandidates, MaxKeys)
       \/ cd_option = "Month" /\ cd_unique_list = unique_months
    /\ cd_result = Unset
    /\ DMR_log = Unset /\ PO_list = Unset /\ DMR_df = Unset /\ supplier_PO_df = Unset
    /\ YearUnset /\ MonthUnset /\ VendorUnset /\ SelectionUnset /\ PBCUnset
    /\ FramesUnset /\ ChartsUnset /\ UniqueCallUnset

CountCall ==
    /\ pc = "count_call"
    /\ cd_result' = generate_count_dict(cd_df, cd_option, cd_unique_list)
    /\ pc' = "count_done"
    /\ UNCHANGED <<DMR_log, PO_list, DMR_df, supplier_PO_df, yearVars, monthVars,
                   vendorVars, pbcVars, cd_df, cd_option, cd_unique_list, frameVars,
                   chartVars, ulVars>>

NextCount == CountCall

SpecCount == InitCount /\ [][NextCount]_vars

----------------------------------------------------------------------------
(* The chart statistics applied to a directly supplied monthly series *)

\* a grouped frame with the given counts in consecutive months
FrameOf(counts) ==
    [k \in 1..Len(counts) |-> [YearMonth |-> <<ToInt(Slice(Date_2023_01, 0, 4)), k>>,
                               Count |-> counts[k]]]

InitPBC ==
    /\ pc = "pbc_call"
    /\ dmr_per_month \in {FrameOf(c) : c \in SeqsUpTo(1..MaxCount, MaxSeries)}
    /\ pbc = Unset
    /\ DMR_log = Unset /\ PO_list = Unset /\ DMR_df = Unset /\ supplier_PO_df = Unset
    /\ YearUnset /\ MonthUnset /\ VendorUnset /\ SelectionUnset /\ CountCallUnset
    /\ FramesUnset /\ ChartsUnset /\ UniqueCallUnset

PBCCall ==
    /\ pc = "pbc_call"
    /\ pbc' = PBCStatistics(CountColumn(dmr_per_month))
    /\ pc' = "pbc_done"
    /\ UNCHANGED <<DMR_log, PO_list, DMR_df, supplier_PO_df, yearVars, monthVars,
                   vendorVars, top_20_key_suppliers, filtered_dmr_df, vendor_interested,
                   year_interested, dmr_per_month, cdVars, frameVars, chartVars, ulVars>>

NextPBC == PBCCall

SpecPBC == InitPBC /\ [][NextPBC]_vars

----------------------------------------------------------------------------
(* One call of generate_unique_list on an arbitrary date column *)

InitUnique ==
    /\ pc = "unique_call"
    /\ ul_df \in SeqsUpTo(DMRDates, MaxRows)
    /\ ul_option \in {"Year", "Month"}
    /\ ul_result = Unset
    /\ DMR_log = Unset /\ PO_list = Unset /\ DMR_df = Unset /\ supplier_PO_df = Unset
    /\ YearUnset /\ MonthUnset /\ VendorUnset /\ SelectionUnset /\ PBCUnset
    /\ CountCallUnset /\ FramesUnset /\ ChartsUnset

UniqueCall ==
    /\ pc = "unique_call"
    /\ ul_result' = generate_unique_list(ul_df, ul_option)
    /\ pc' = "unique_done"
    /\ UNCHANGED <<DMR_log, PO_list, DMR_df, supplier_PO_df, yearVars, monthVars, vendorVars,
                   pbcVars, cdVars, frameVars, chartVars, ul_df, ul_option>>

NextUnique == UniqueCall

SpecUnique == InitUnique /\ [][NextUnique]_vars

----------------------------------------------------------------------------
(* The bar chart ranking applied to a directly supplied vendor ratio frame *)

ChartVendorNames == <<"V01", "V02", "V03", "V04", "V05", "V06", "V07", "V08", "V09", "V10">>

\* the cells of a vendor ratio frame: no ratio, or a percentage
ChartValues == {NaN, Rat(50, 1), Rat(100, 1)}

ChartYear == Slice(Date_2023_01, 0, 4)

\* a vendor ratio frame of n rows with the single year column
ChartFrames(n) ==
    LET vendors == SubSeq(ChartVendorNames, 1, n)
    IN  {[Vendor |-> vendors, columns |-> {ToInt(ChartYear)}, cell |-> c] :
            c \in [Range(vendors) -> [{ToInt(ChartYear)} -> ChartValues]]}

InitChart ==
    /\ pc = "chart_call"
    /\ \E n \in 0..MaxChartVendors : df_vendor_SQR_ratios \in ChartFrames(n)
    /\ DMR_log = Unset /\ PO_list = Unset /\ DMR_df = Unset /\ supplier_PO_df = Unset
    /\ YearUnset /\ MonthUnset
    /\ vendors_yr_DMR_count_df = Unset /\ vendors_yr_PO_count_df = Unset
    /\ vendor_DMR_counts = Unset /\ vendor_PO_counts = Unset /\ vendor_SQR_ratios = Unset
    /\ SelectionUnset /\ PBCUnset /\ CountCallUnset
    /\ FramesUnset /\ ChartsUnset /\ UniqueCallUnset

ChartCall ==
    /\ pc = "chart_call"
    /\ top8_SQRs' =
           [year \in {ChartYear} |-> generate_SQR_bar_chart(df_vendor_SQR_ratios, ToInt(year))]
    /\ top8_SQRs_excel' =
           [year \in {ChartYear} |->
               generate_SQR_bar_chart_excel(df_vendor_SQR_ratios, ToInt(year))]
    /\ pc' = "chart_done"
    /\ UNCHANGED <<DMR_log, PO_list, DMR_df, supplier_PO_df, yearVars, monthVars, vendorVars,
                   pbcVars, cdVars, frameVars, ulVars>>

NextChart == ChartCall

SpecChart == InitChart /\ [][NextChart]_vars

----------------------------------------------------------------------------
(* Properties *)

Stages == <<"year_counts", "year_ratio", "month_counts", "month_ratio", "frames",
            "vendor_counts", "vendor_ratio", "bar_charts", "key_suppliers", "select", "done">>

StageRank(p) == CHOOSE i \in 1..Len(Stages) : Stages[i] = p

\* the step of the script named by stage has been executed
Past(stage) == StageRank(pc) > StageRank(stage)

\* the step of the script named by stage has just been executed
Computed(stage) == pc # "year_counts" /\ Stages[StageRank(pc) - 1] = stage

\* r is the float (n / d) * 100, d # 0
IsPercent(r, n, d) == r.tag = "num" /\ r.num * d = n * 100 * r.den

\* C1: the year ratio table has exactly the keys of the DMR year-count table; an entry is
\* None iff its year is no key of the PO year-count table, and is (DMR / PO) * 100 otherwise.
C1_YearRatio ==
    Past("year_ratio") =>
        /\ DOMAIN DMR_PO_perc_yr = DOMAIN DMRs_yrs_count
        /\ \A k \in DOMAIN DMRs_yrs_count :
               /\ (DMR_PO_perc_yr[k].tag = "None") <=> (k \notin DOMAIN PO_yrs_count)
               /\ k \in DOMAIN PO_yrs_count =>
                      IsPercent(DMR_PO_perc_yr[k], DMRs_yrs_count[k], PO_yrs_count[k])

C1_Witness ==
    /\ Past("year_ratio")
    /\ \E k \in DOMAIN DMR_PO_perc_yr : DMR_PO_perc_yr[k].tag = "None"
    /\ \E k \in DOMAIN DMR_PO_perc_yr : DMR_PO_perc_yr[k] = Rat(50, 1)

\* C2: the month ratio table has exactly the years that are keys of both month-count
\* tables; in such a year a month is absent iff its PO count is 0, a present month holds
\* (DMR / PO) * 100, and no month holds None.
C2_MonthRatio ==
    Computed("month_ratio") =>
        /\ DOMAIN DMR_PO_perc_month = (DOMAIN DMRs_month_count) \cap (DOMAIN PO_month_count)
        /\ \A y \in DOMAIN DMR_PO_perc_month :
               /\ DOMAIN DMR_PO_perc_month[y] \subseteq Range(unique_months)
               /\ \A m \in Range(unique_months) :
                      /\ (m \notin DOMAIN DMR_PO_perc_month[y]) <=> (PO_month_count[y][m] = 0)
                      /\ m \in DOMAIN DMR_PO_perc_month[y] =>
                             IsPercent(DMR_PO_perc_month[y][m], DMRs_month_count[y][m],
                                       PO_month_count[y][m])

C2_Witness ==
    /\ Past("month_ratio")
    /\ \E y \in DOMAIN DMR_PO_perc_month :
           /\ \E m \in Range(unique_months) :
                  /\ DMRs_month_count[y][m] > 0
                  /\ PO_month_count[y][m] = 0
                  /\ m \notin DOMAIN DMR_PO_perc_month[y]
           /\ \E m \in DOMAIN DMR_PO_perc_month[y] : DMR_PO_perc_month[y][m] = Rat(0, 1)
    /\ \E y \in DOMAIN DMRs_month_count : y \notin DOMAIN DMR_PO_perc_month

\* C3: every (vendor, year) pair of the DMR vendor counts has a vendor ratio; it is None
\* iff the pair, with the vendor string compared as written, is absent from the PO vendor
\* counts, and is (DMR / PO) * 100 of that pair otherwise.
C3_VendorRatio ==
    Past("vendor_ratio") =>
        /\ DOMAIN vendor_SQR_ratios = DOMAIN vendor_DMR_counts
        /\ \A v \in DOMAIN vendor_DMR_counts :
               /\ DOMAIN vendor_SQR_ratios[v] = DOMAIN vendor_DMR_counts[v]
               /\ \A y \in DOMAIN vendor_DMR_counts[v] :
                      /\ (vendor_SQR_ratios[v][y].tag = "None")
                             <=> ~InCounts(vendor_PO_counts, v, y)
                      /\ InCounts(vendor_PO_counts, v, y) =>
                             IsPercent(vendor_SQR_ratios[v][y], vendor_DMR_counts[v][y],
                                       vendor_PO_counts[v][y])

C3_Witness ==
    /\ Past("vendor_ratio")
    /\ \E v \in DOMAIN vendor_SQR_ratios : \E y \in DOMAIN vendor_SQR_ratios[v] :
           /\ vendor_SQR_ratios[v][y].tag = "None"
           /\ \E w \in DOMAIN vendor_PO_counts :
                  w # v /\ Upper(w) = Upper(v) /\ y \in DOMAIN vendor_PO_counts[w]
    /\ \E v \in DOMAIN vendor_SQR_ratios : \E y \in DOMAIN vendor_SQR_ratios[v] :
           vendor_SQR_ratios[v][y].tag = "num"

LogVendors == {DMR_log[i].Vendor : i \in 1..Len(DMR_log)}

DatedLogVendors ==
    {DMR_log[i].Vendor : i \in {j \in 1..Len(DMR_log) : IsDigit(Slice(DMR_log[j].Date, 0, 4))}}

\* C5 (as claimed): the vendor ratio table has exactly one row per vendor of the DMR log
\* and no other row.
C5_RowsAreLogVendors ==
    Past("vendor_ratio") =>
        /\ Range(df_vendor_SQR_ratios.Vendor) = LogVendors
        /\ Cardinality(Range(df_vendor_SQR_ratios.Vendor)) = Len(df_vendor_SQR_ratios.Vendor)

\* C5 (amended): the vendor ratio table has exactly one row per vendor that has a DMR
\* record whose first four date characters are all digits, and no other row; a vendor of
\* the PO list alone gets none.
C5_RowsAreDatedLogVendors ==
    Past("vendor_ratio") =>
        /\ Range(df_vendor_SQR_ratios.Vendor) = DatedLogVendors
        /\ Cardinality(Range(df_vendor_SQR_ratios.Vendor)) = Len(df_vendor_SQR_ratios.Vendor)

C5_Witness ==
    /\ Past("vendor_ratio")
    /\ Len(df_vendor_SQR_ratios.Vendor) = 1
    /\ \E v \in LogVendors : v \notin Range(df_vendor_SQR_ratios.Vendor)
    /\ \E i \in 1..Len(PO_list) : PO_list[i].Vendor \notin Range(df_vendor_SQR_ratios.Vendor)

RECURSIVE CountPrefix(_, _)
CountPrefix(dates, key) ==
    IF dates = <<>> THEN 0
    ELSE (IF Slice(Head(dates), 0, 4) = key THEN 1 ELSE 0) + CountPrefix(Tail(dates), key)

RECURSIVE SumOver(_, _)
SumOver(f, S) ==
    IF S = {} THEN 0 ELSE LET k == CHOOSE x \in S : TRUE IN f[k] + SumOver(f, S \ {k})

Prefixes(dates) == {Slice(dates[i], 0, 4) : i \in 1..Len(dates)}

\* C6: generate_count_dict with option 'Year' returns one entry per requested key, holding
\* the number (>= 0) of records whose first four date characters equal the key; all are 0
\* for no records; when the keys cover every record's year the counts sum to the number
\* of records.
C6_CountByYear ==
    (pc = "count_done" /\ cd_option = "Year") =>
        /\ DOMAIN cd_result = Range(cd_unique_list)
        /\ \A k \in Range(cd_unique_list) :
               /\ cd_result[k] = CountPrefix(cd_df, k)
               /\ cd_result[k] >= 0
               /\ Len(cd_df) = 0 => cd_result[k] = 0
        /\ Prefixes(cd_df) \subseteq Range(cd_unique_list) =>
               SumOver(cd_result, DOMAIN cd_result) = Len(cd_df)

C6_Witness ==
    /\ pc = "count_done" /\ cd_option = "Year"
    /\ Len(cd_df) = 3
    /\ Prefixes(cd_df) \subseteq Range(cd_unique_list)
    /\ \E k \in DOMAIN cd_result : cd_result[k] = 2
    /\ \E k \in DOMAIN cd_result : cd_result[k] = 1

RECURSIVE CountYearMonth(_, _, _)
CountYearMonth(dates, year, month) ==
    IF dates = <<>> THEN 0
    ELSE (IF Slice(Head(dates), 0, 4) = year /\ Slice(Head(dates), 5, 7) = month
          THEN 1 ELSE 0) + CountYearMonth(Tail(dates), year, month)

IsMonthTable(table, dates) ==
    /\ DOMAIN table = Prefixes(dates)
    /\ \A y \in DOMAIN table :
           /\ DOMAIN table[y] = Range(unique_months)
           /\ Cardinality(DOMAIN table[y]) = 12
           /\ \A m \in DOMAIN table[y] : table[y][m] = CountYearMonth(dates, y, m)

\* C7: generate_count_dict with option 'Month' returns, for exactly the distinct year
\* prefixes of the records, an entry for each of the 12 month codes holding the number of
\* records with that year prefix and month substring (0 when there is none).
C7_CountByMonth ==
    Computed("month_counts") =>
        /\ IsMonthTable(DMRs_month_count, DateColumn(DMR_log))
        /\ IsMonthTable(PO_month_count, DateColumn(PO_list))

C7_Witness ==
    /\ Past("month_counts")
    /\ \E y \in DOMAIN DMRs_month_count :
           /\ \E m \in DOMAIN DMRs_month_count[y] : DMRs_month_count[y][m] = 1
           /\ \E m \in DOMAIN DMRs_month_count[y] : DMRs_month_count[y][m] = 0
    /\ \E y \in DOMAIN DMRs_month_count :
           \A m \in DOMAIN DMRs_month_count[y] : DMRs_month_count[y][m] = 0

\* C8: for a non-empty monthly series c of length n the moving ranges have length n, start
\* with 0 and continue with |c[i] - c[i-1]|; avg_moving_range is their last element;
\* UPL = mean + 2.66 * avg_moving_range and URL = 3.27 * avg_moving_range. Counts
\* [5, 3, 8, 2] give moving ranges [0, 2, 5, 6], avg_moving_range 6, mean 4.5, UPL 20.46
\* and URL 19.62.
C8_MovingRangeAndUpperLimits ==
    (pc = "pbc_done" /\ Len(dmr_per_month) > 0) =>
        LET c == CountColumn(dmr_per_month)
            n == Len(c)
            mr == pbc.moving_ranges
        IN  /\ pbc.raised = "no"
            /\ Len(mr) = n
            /\ mr[1] = 0
            /\ \A i \in 2..n : mr[i] = Abs(c[i] - c[i - 1])
            /\ pbc.average_moving_ranges = Rat(mr[n], 1)
            /\ pbc.mean_dmr.tag = "num"
            /\ pbc.mean_dmr.num * n = SumSeq(c) * pbc.mean_dmr.den
            /\ pbc.UPL.tag = "num"
            /\ pbc.UPL.num * 100 * n = (100 * SumSeq(c) + 266 * mr[n] * n) * pbc.UPL.den
            /\ pbc.URL.tag = "num"
            /\ pbc.URL.num * 100 = 327 * mr[n] * pbc.URL.den
            /\ c = <<5, 3, 8, 2>> =>
                   /\ mr = <<0, 2, 5, 6>>
                   /\ pbc.average_moving_ranges = Rat(6, 1)
                   /\ pbc.mean_dmr = Rat(45, 10)
                   /\ pbc.UPL = Rat(2046, 100)
                   /\ pbc.URL = Rat(1962, 100)

C8_Witness ==
    /\ pc = "pbc_done"
    /\ CountColumn(dmr_per_month) = <<5, 3, 8, 2>>
    /\ pbc.moving_ranges = <<0, 2, 5, 6>>
    /\ pbc.UPL = Rat(2046, 100)

\* mean - 2.66 * avg_moving_range < 0 for the series c, in integers
NaturalNegative(c) ==
    100 * SumSeq(c) < 266 * Abs(c[Len(c)] - c[Len(c) - 1]) * Len(c)

\* C9: the reported LPL is 0 when mean - 2.66 * avg_moving_range is negative and is the
\* mean when it is not; LPL is never anything but 0 or the mean.
C9_LowerLimit ==
    (pc = "pbc_done" /\ pbc.raised = "no") =>
        LET c == CountColumn(dmr_per_month)
        IN  /\ pbc.LPL \in {Zero, pbc.mean_dmr}
            /\ Len(c) = 1 => pbc.LPL = pbc.mean_dmr
            /\ Len(c) > 1 =>
                   /\ NaturalNegative(c) => pbc.LPL = Zero
                   /\ ~NaturalNegative(c) => pbc.LPL = pbc.mean_dmr

C9_Witness ==
    /\ pc = "pbc_done"
    /\ Len(dmr_per_month) > 1
    /\ ~NaturalNegative(CountColumn(dmr_per_month))
    /\ pbc.average_moving_ranges # Zero
    /\ pbc.LPL = pbc.mean_dmr
    /\ pbc.LPL # Zero

\* C10: a vendor/year selection with no data point, or with exactly one, is computed
\* without raising: one moving range 0; for a single point avg_moving_range 0, UPL = mean
\* and URL = 0; for no point the mean is nan.
C10_DegenerateSeries ==
    (pc = "done" /\ Len(dmr_per_month) <= 1) =>
        /\ pbc.raised = "no"
        /\ pbc.moving_ranges = <<0>>
        /\ pbc.average_moving_ranges = Zero
        /\ pbc.URL = Zero
        /\ pbc.UPL = pbc.mean_dmr
        /\ Len(dmr_per_month) = 0 => pbc.mean_dmr = NaN
        /\ Len(dmr_per_month) = 1 => pbc.mean_dmr = Rat(dmr_per_month[1].Count, 1)

\* both select boxes offered the selection, and it has no data point
C10_Witness ==
    /\ pc = "done"
    /\ Len(dmr_per_month) = 0
    /\ \E i \in 1..Len(filtered_dmr_df) : filtered_dmr_df[i].Vendor = vendor_interested
    /\ \E i \in 1..Len(filtered_dmr_df) : dt_year(filtered_dmr_df[i].Date) = year_interested
    /\ pbc.raised = "no"

\* the DMR log records of the selected vendor (as upper-cased for the select box) whose
\* date reads year_interested, and the calendar month of such a record
SelectedRecords ==
    {i \in 1..Len(DMR_log) :
        /\ Upper(DMR_log[i].Vendor) = vendor_interested
        /\ IsDigit(Slice(DMR_log[i].Date, 0, 4))
        /\ ToInt(Slice(DMR_log[i].Date, 0, 4)) = year_interested}

MonthOf(i) == ToInt(Slice(DMR_log[i].Date, 5, 7))

\* C11: for the selected vendor and year the PBC input series has exactly one point per
\* calendar month in which the vendor has a DMR record of that year, in ascending month
\* order; a point's count is the number of those records in its month, so it is >= 1, a
\* month without records has no point, and the counts sum to the vendor's records of the year.
C11_InputSeries ==
    (pc = "done" /\ vendor_interested # "None") =>
        LET months == {MonthOf(i) : i \in SelectedRecords}
            n == Len(dmr_per_month)
        IN  /\ n = Cardinality(months)
            /\ {dmr_per_month[k].YearMonth : k \in 1..n} =
                   {<<year_interested, m>> : m \in months}
            /\ \A k \in 1..(n - 1) :
                   dmr_per_month[k].YearMonth[2] < dmr_per_month[k + 1].YearMonth[2]
            /\ \A k \in 1..n :
                   /\ dmr_per_month[k].Count >= 1
                   /\ dmr_per_month[k].Count =
                          Cardinality({i \in SelectedRecords :
                                          MonthOf(i) = dmr_per_month[k].YearMonth[2]})
            /\ SumSeq(CountColumn(dmr_per_month)) = Cardinality(SelectedRecords)

\* two months of one year, logged in descending order, one record each
C11_Witness ==
    /\ pc = "done" /\ vendor_interested # "None"
    /\ Len(DMR_log) = 2
    /\ DMR_log[1].Date = Date_2023_02 /\ DMR_log[2].Date = Date_2023_01
    /\ Len(dmr_per_month) = 2
    /\ dmr_per_month[1].YearMonth[2] = 1 /\ dmr_per_month[2].YearMonth[2] = 2

\* the dates of the form YYYY-MM-DD, and the dates whose first four characters are digits
WellFormed(dates) == SelectSeq(dates, LAMBDA d : IsDate(ToDatetime(d)))

DigitYear(dates) == SelectSeq(dates, LAMBDA d : IsDigit(Slice(d, 0, 4)))

IsYearTable(table, dates) ==
    /\ DOMAIN table = Prefixes(dates)
    /\ \A k \in DOMAIN table : table[k] = CountPrefix(dates, k)

\* number of the records of log with the vendor and a digit year prefix reading year
VendorYearCount(log, vendor, year) ==
    Cardinality({i \in 1..Len(log) :
                    /\ log[i].Vendor = vendor
                    /\ IsDigit(Slice(log[i].Date, 0, 4))
                    /\ ToInt(Slice(log[i].Date, 0, 4)) = year})

\* counts holds exactly the non-zero VendorYearCount of log
IsVendorTable(counts, log) ==
    \A v \in DMRVendors \cup POVendors : \A y \in YearNumbers :
        IF VendorYearCount(log, v, y) > 0
        THEN InCounts(counts, v, y) /\ counts[v][y] = VendorYearCount(log, v, y)
        ELSE ~InCounts(counts, v, y)

\* C12 (as claimed): a record whose date is not of the form YYYY-MM-DD adds no key and no
\* increment to the year-count, month-count and (vendor, year) count tables, and no entry
\* to the year ratio table: the tables are those of the well-formed records alone.
C12_MalformedExcluded ==
    /\ Computed("year_counts") =>
           /\ IsYearTable(DMRs_yrs_count, WellFormed(DateColumn(DMR_log)))
           /\ IsYearTable(PO_yrs_count, WellFormed(DateColumn(PO_list)))
    /\ Computed("year_ratio") =>
           DOMAIN DMR_PO_perc_yr = Prefixes(WellFormed(DateColumn(DMR_log)))
    /\ Computed("month_counts") =>
           /\ IsMonthTable(DMRs_month_count, WellFormed(DateColumn(DMR_log)))
           /\ IsMonthTable(PO_month_count, WellFormed(DateColumn(PO_list)))
    /\ Computed("vendor_counts") =>
           /\ IsVendorTable(vendor_DMR_counts, DMR_log)
           /\ IsVendorTable(vendor_PO_counts, PO_list)

\* C12 (amended): a record whose first four date characters are not all digits adds
\* nothing to any (vendor, year) count nor to the vendor ratio table, and nothing to the
\* count of another key; its own four-character prefix is a key of the year-count table
\* (counting it), of the month-count table and, for a DMR record, of the year ratio table.
C12_NonDigitYearKept ==
    /\ Computed("year_counts") =>
           /\ IsYearTable(DMRs_yrs_count, DateColumn(DMR_log))
           /\ IsYearTable(PO_yrs_count, DateColumn(PO_list))
           /\ \A k \in Prefixes(DigitYear(DateColumn(DMR_log))) :
                  DMRs_yrs_count[k] = CountPrefix(DigitYear(DateColumn(DMR_log)), k)
    /\ Computed("year_ratio") => DOMAIN DMR_PO_perc_yr = Prefixes(DateColumn(DMR_log))
    /\ Computed("month_counts") =>
           /\ DOMAIN DMRs_month_count = Prefixes(DateColumn(DMR_log))
           /\ \A k \in Prefixes(DigitYear(DateColumn(DMR_log))) : \A m \in Range(unique_months) :
                  DMRs_month_count[k][m] =
                      CountYearMonth(DigitYear(DateColumn(DMR_log)), k, m)
    /\ Computed("vendor_counts") =>
           /\ IsVendorTable(vendor_DMR_counts, DMR_log)
           /\ IsVendorTable(vendor_PO_counts, PO_list)
    /\ Computed("vendor_ratio") =>
           \A v \in DOMAIN vendor_SQR_ratios : \A y \in DOMAIN vendor_SQR_ratios[v] :
               VendorYearCount(DMR_log, v, y) > 0

\* a record without a date beside a dated one of the same vendor
C12_Witness ==
    /\ Past("vendor_ratio")
    /\ Len(DMR_log) = 2
    /\ DMR_log[1].Date = Date_nan /\ DMR_log[2].Date = Date_2023_01
    /\ DMR_log[1].Vendor = DMR_log[2].Vendor
    /\ DMRs_yrs_count[Date_nan] = 1
    /\ DMR_PO_perc_yr[Date_nan].tag = "None"
    /\ Date_nan \in DOMAIN DMRs_month_count
    /\ vendor_DMR_counts[DMR_log[1].Vendor][2023] = 1

\* r is a number with one decimal place that lies within 0.05 of raw
IsRounded1(r, raw) ==
    /\ IsNum(r)
    /\ 10 % r.den = 0
    /\ 20 * Abs(r.num * raw.den - raw.num * r.den) <= r.den * raw.den

\* the year and month tables hold the raw ratios rounded to one decimal place
YearAndMonthRounded ==
    /\ \A k \in DOMAIN df_yr :
           IsNum(DMR_PO_perc_yr[k]) => IsRounded1(df_yr[k], DMR_PO_perc_yr[k])
    /\ \A y \in DOMAIN DMR_PO_perc_month : \A m \in DOMAIN DMR_PO_perc_month[y] :
           IsRounded1(df_month[y][m], DMR_PO_perc_month[y][m])

\* the vendor table holds the raw ratios rounded to one decimal place
VendorRounded ==
    \A v \in DOMAIN vendor_SQR_ratios : \A y \in DOMAIN vendor_SQR_ratios[v] :
        IsNum(vendor_SQR_ratios[v][y]) =>
            IsRounded1(df_vendor_SQR_ratios.cell[v][y], vendor_SQR_ratios[v][y])

\* C13 (as claimed): every percentage of the year, month and vendor tables handed to
\* presentation is the raw ratio rounded to one decimal place, and the raw ratio tables
\* still hold the unrounded ratios after the rounding.
C13_RoundingLaw ==
    pc = "tables_done" =>
        /\ YearAndMonthRounded
        /\ VendorRounded
        /\ \A k \in (DOMAIN DMRs_yrs_count) \cap (DOMAIN PO_yrs_count) :
               PO_yrs_count[k] # 0 =>
                   IsPercent(DMR_PO_perc_yr[k], DMRs_yrs_count[k], PO_yrs_count[k])

\* the numbers of the vendors of a frame that have a ratio for the year
Ratios(df_SQR, year) ==
    {i \in 1..Len(df_SQR.Vendor) : IsNum(df_SQR.cell[df_SQR.Vendor[i]][year])}

\* result is a ranked list of the vendors of df_SQR with the greatest ratios of the year
IsTop8(result, df_SQR, year) ==
    /\ result.raised = "no"
    /\ LET rows == result.rows
           listed == {rows[k].Vendor : k \in 1..Len(rows)}
       IN  /\ Len(rows) = Min(8, Cardinality(Ratios(df_SQR, year)))
           /\ Cardinality(listed) = Len(rows)
           /\ \A k \in 1..Len(rows) :
                  /\ rows[k].Vendor \in Range(df_SQR.Vendor)
                  /\ rows[k].value = df_SQR.cell[rows[k].Vendor][year]
                  /\ IsNum(rows[k].value)
           /\ \A k \in 1..(Len(rows) - 1) : ~FLess(rows[k].value, rows[k + 1].value)
           /\ \A i \in Ratios(df_SQR, year) :
                  df_SQR.Vendor[i] \notin listed =>
                      \A k \in 1..Len(rows) :
                          ~FLess(rows[k].value, df_SQR.cell[df_SQR.Vendor[i]][year])

\* the dashboard's list is such a ranked list
DashboardTop8 ==
    pc \in {"chart_done", "key_suppliers"} =>
        \A year \in DOMAIN top8_SQRs :
            IsTop8(top8_SQRs[year], df_vendor_SQR_ratios, ToInt(year))

\* C14 (as claimed): for a chart year (in the script: every year of both year lists) the
\* dashboard and the export script each produce a ranked list of at most 8 vendors, in
\* descending ratio order, every listed vendor with a non-null ratio of the year, no
\* unlisted vendor with a ratio greater than a listed one.
C14_Top8Ranking ==
    pc \in {"chart_done", "key_suppliers"} =>
        \A year \in DOMAIN top8_SQRs :
            /\ IsTop8(top8_SQRs[year], df_vendor_SQR_ratios, ToInt(year))
            /\ IsTop8(top8_SQRs_excel[year], df_vendor_SQR_ratios, ToInt(year))

\* position of the first occurrence of key in the sequence keys
FirstAt(keys, key) ==
    CHOOSE i \in 1..Len(keys) : keys[i] = key /\ \A j \in 1..(i - 1) : keys[j] # key

\* result holds each element of keys exactly once, in order of first occurrence
IsFirstSeen(result, keys) ==
    /\ Range(result) = Range(keys)
    /\ Cardinality(Range(result)) = Len(result)
    /\ \A a, b \in 1..Len(result) :
           a < b => FirstAt(keys, result[a]) < FirstAt(keys, result[b])

\* C15 (as claimed): generate_unique_list returns each distinct key exactly once, in order
\* of first occurrence: for 'Year' the first four characters of the dates, for 'Month' the
\* month keys (characters 5-6) of the dates.
C15_UniqueKeys ==
    pc = "unique_done" =>
        /\ ul_option = "Year" =>
               IsFirstSeen(ul_result, [i \in 1..Len(ul_df) |-> Slice(ul_df[i], 0, 4)])
        /\ ul_option = "Month" =>
               IsFirstSeen(ul_result, [i \in 1..Len(ul_df) |-> Slice(ul_df[i], 5, 7)])

\* the 'Year' half of the claim
YearKeysFirstSeen ==
    (pc = "unique_done" /\ ul_option = "Year") =>
        IsFirstSeen(ul_result, [i \in 1..Len(ul_df) |-> Slice(ul_df[i], 0, 4)])

\* C16 (as claimed): an invocation of the PBC computation leaves the record table passed to
\* it unchanged: no column of filtered_dmr_df is rewritten by the step that makes the call.
\* (The statistics are a function of the vendor, the year and the table, so two
\* invocations on the same arguments agree; the frame condition is what can fail.)
C16_TableUnchanged ==
    [][pc = "select" => filtered_dmr_df' = filtered_dmr_df]_vars

\* C17: in every run of the script the PO year-count table and the PO (vendor, year) count
\* table hold only values >= 1, so the year-level division never divides by zero (no year
\* ratio is inf or nan) and the vendor-level 'po_count != 0' test never fails (no pair of
\* the DMR vendor counts is left without an entry); month-level PO counts can be 0.
C17_DenominatorsPositive ==
    /\ Past("year_counts") => \A k \in DOMAIN PO_yrs_count : PO_yrs_count[k] >= 1
    /\ Past("year_ratio") =>
           \A k \in DOMAIN DMR_PO_perc_yr : DMR_PO_perc_yr[k].tag \in {"None", "num"}
    /\ Past("vendor_counts") =>
           \A v \in DOMAIN vendor_PO_counts : \A y \in DOMAIN vendor_PO_counts[v] :
               vendor_PO_counts[v][y] >= 1
    /\ Past("vendor_ratio") =>
           \A v \in DOMAIN vendor_DMR_counts :
               DOMAIN vendor_SQR_ratios[v] = DOMAIN vendor_DMR_counts[v]

\* a year and a (vendor, year) pair are divided by their PO counts while a month of the
\* same PO year has the count 0
C17_Witness ==
    /\ Past("vendor_ratio")
    /\ \E k \in DOMAIN DMR_PO_perc_yr : DMR_PO_perc_yr[k].tag = "num" /\ PO_yrs_count[k] = 2
    /\ \E v \in DOMAIN vendor_SQR_ratios : \E y \in DOMAIN vendor_SQR_ratios[v] :
           vendor_SQR_ratios[v][y].tag = "num" /\ vendor_PO_counts[v][y] >= 1
    /\ \E y \in DOMAIN PO_month_count : \E m \in DOMAIN PO_month_count[y] :
           PO_month_count[y][m] = 0 /\ PO_yrs_count[y] >= 1

====
